---------------------------- MODULE Spec2Model ----------------------------
(***************************************************************************)
(* A model of the Forth interpreter of src/src/lib.rs: the evaluation     *)
(* stack, the operation table (expanded_definitions), the queue of        *)
(* pending definitions (raw_definitions) and the loops of eval,           *)
(* eval_command, expand_word and expand_raw_definition, one action per    *)
(* loop iteration.                                                        *)
(*                                                                         *)
(* A text is modelled as the sequence of its whitespace-separated         *)
(* lexemes, ":" and ";" standing alone (split_commands works on           *)
(* characters; a ':' or ';' glued to another lexeme is not modelled).     *)
(***************************************************************************)
EXTENDS Integers, Sequences, FiniteSets, TLC

VARIABLES
    stack,                \* Forth.stack: Vec<Value>, top = end
    expanded_definitions, \* Forth.expanded_definitions: HashMap<String, Operation>
    raw_definitions,      \* Forth.raw_definitions: Vec<(String, Vec<Token>)>
    pc,                   \* position: "idle", "eval", "expr", "drain", "expand",
                          \* "panicked" (the process aborted), "cut" (a model bound was hit)
    commands,             \* eval: the commands of split_commands not yet evaluated
    tokens,               \* eval_command: the worklist of the expression
    word,                 \* expand_word: the word being looked up
    name,                 \* expand_word: the name of the definition being expanded
    def_tokens,           \* expand_raw_definition: its worklist (`tokens` there)
    buf,                  \* expand_raw_definition: its output buffer
    result,               \* what the last eval call returned ("None": nothing yet)
    calls,                \* history: number of eval calls made
    input,                \* history: the text of the current (or last) eval call
    stack0,               \* history: the stack when that call was made
    defined,              \* history: the names of the Definition commands so far
    fresh,                \* history: the names whose table entry was installed
                          \* from the most recent Definition command of the name
    raw_latest,           \* history, one flag per pending definition: it is the
                          \* most recent Definition command of its name
    cur_latest,           \* history: that flag, for the definition being expanded
    tick,                 \* history: parity of the number of splices (append_front)
    memo,                 \* history: the table when the current call was made, and
                          \* an earlier call of one word that is remembered
    ref                   \* the eager reference interpreter run on the same calls:
                          \* its table, its stack and what its last call returned

prog == <<stack, expanded_definitions, raw_definitions>>
ctl == <<pc, commands, tokens, word, name, def_tokens, buf, result>>
hist == <<calls, input, stack0, defined, fresh, raw_latest, cur_latest, tick, memo, ref>>
vars == <<prog, ctl, hist>>

---------------------------------------------------------------------------
(* Bounds of the model.                                                    *)

MaxCalls == 2
MaxStack == 3
MaxWork == 3
MaxInitStack == 2

---------------------------------------------------------------------------
(* Value = i32 (lib.rs:3).  TLC's own integers are 32 bits wide and TLC   *)
(* stops on overflow, so every operator below computes inside the range.  *)

MaxV == 2147483647
MinV == -MaxV - 1

AddOverflows(a, b) ==
    \/ b > 0 /\ a > MaxV - b
    \/ b < 0 /\ a < MinV - b

\* a + b modulo 2^32, as a two's complement i32
WrapAdd(a, b) ==
    IF b > 0 /\ a > MaxV - b THEN (a + MinV) + (b + MinV)
    ELSE IF b < 0 /\ a < MinV - b THEN (a - MinV) + (b - MinV)
    ELSE a + b

\* b - a overflows
SubOverflows(b, a) ==
    \/ a < 0 /\ b > MaxV + a
    \/ a > 0 /\ b < MinV + a

\* b - a modulo 2^32
WrapSub(b, a) ==
    IF a < 0 /\ b > MaxV + a THEN (b + MinV) - (a - MinV)
    ELSE IF a > 0 /\ b < MinV + a THEN (b - MinV) - (a + MinV)
    ELSE b - a

\* ceiling of MinV / d for d > 0
CeilMinDiv(d) == (MinV \div d) + (IF MinV % d = 0 THEN 0 ELSE 1)

MulOverflows(a, b) ==
    IF a = 0 \/ b = 0 THEN FALSE
    ELSE IF a > 0 /\ b > 0 THEN a > MaxV \div b
    ELSE IF a > 0 /\ b < 0 THEN b < CeilMinDiv(a)
    ELSE IF a < 0 /\ b > 0 THEN a < CeilMinDiv(b)
    ELSE a = MinV \/ b = MinV \/ (-a) > MaxV \div (-b)

\* the low 16 bits of x * y, for x and y in 0..65535
MulLow16(x, y) ==
    LET x0 == x % 256
        x1 == x \div 256
        y0 == y % 256
        y1 == y \div 256
    IN  (x0 * y0 + ((x0 * y1 + x1 * y0) % 256) * 256) % 65536

\* bits 16..31 of x * y, for x and y in 0..65535
MulHigh16(x, y) ==
    LET x0 == x % 256
        x1 == x \div 256
        y0 == y % 256
        y1 == y \div 256
        m == x0 * y1 + x1 * y0
        t == x0 * y0 + (m % 256) * 256
    IN  (x1 * y1 + (m \div 256) + (t \div 65536)) % 65536

\* a * b modulo 2^32, as a two's complement i32, from the 16-bit halves
WrapMul(a, b) ==
    LET alo == a % 65536
        ahi == (a \div 65536) % 65536
        blo == b % 65536
        bhi == (b \div 65536) % 65536
        lo == MulLow16(alo, blo)
        hi == (MulHigh16(alo, blo) + MulLow16(ahi, blo) + MulLow16(alo, bhi)) % 65536
    IN  IF hi >= 32768 THEN (hi - 65536) * 65536 + lo ELSE hi * 65536 + lo

\* b / a of Rust overflows (and panics in every build profile)
DivOverflows(b, a) == b = MinV /\ a = -1

\* b / d truncated toward zero, d > 0
TruncDivPos(b, d) ==
    IF b >= 0 \/ b % d = 0 THEN b \div d ELSE (b \div d) + 1

\* b / a truncated toward zero, a # 0 and not DivOverflows(b, a)
TruncDiv(b, a) ==
    IF a > 0 THEN TruncDivPos(b, a)
    ELSE IF a = MinV THEN (IF b = MinV THEN 1 ELSE 0)
    ELSE -TruncDivPos(b, -a)

---------------------------------------------------------------------------
(* Token, Operation, Error.                                                *)

\* Token::Number(i) and Token::Word(s); the variants NativeOperation and
\* UserDefinedOperation are never constructed by the program.
Number(i) == [kind |-> "Number", num |-> i, str |-> ""]
Word(s) == [kind |-> "Word", num |-> 0, str |-> s]

Primitives ==
    {"Addition", "Subtraction", "Multiplication", "Division",
     "Duplicate", "Drop", "Swap", "Over"}

Native(o) == [op |-> o, body |-> <<>>]
UserDefined(b) == [op |-> "UserDefined", body |-> b]

Errors == {"DivisionByZero", "StackUnderflow", "UnknownWord", "InvalidWord"}

PREDIFINED_OPERATIONS ==
    ("+" :> Native("Addition")) @@ ("-" :> Native("Subtraction"))
    @@ ("*" :> Native("Multiplication")) @@ ("/" :> Native("Division"))
    @@ ("dup" :> Native("Duplicate")) @@ ("drop" :> Native("Drop"))
    @@ ("swap" :> Native("Swap")) @@ ("over" :> Native("Over"))

---------------------------------------------------------------------------
(* The primitives.  Each yields the set of outcomes the build can         *)
(* produce: [status, stack].  An arithmetic overflow panics in a build    *)
(* with overflow checks and wraps in one without; i32::MIN / -1 panics    *)
(* in both.                                                                *)

Front(s) == SubSeq(s, 1, Len(s) - 1)
Last(s) == s[Len(s)]

Outcome(st, s) == [status |-> st, stack |-> s]

\* the result of an arithmetic operation that may overflow
Arith(s, overflows, exact, wrapped) ==
    IF overflows THEN {Outcome("Panic", s), Outcome("Ok", Append(s, wrapped))}
    ELSE {Outcome("Ok", Append(s, exact))}

do_addition(s) ==
    IF Len(s) = 0 THEN {Outcome("StackUnderflow", s)}
    ELSE LET a == Last(s)
             s1 == Front(s)
         IN  IF Len(s1) = 0 THEN {Outcome("StackUnderflow", s1)}
             ELSE LET b == Last(s1)
                      s2 == Front(s1)
                  IN  Arith(s2, AddOverflows(a, b), WrapAdd(a, b), WrapAdd(a, b))

do_substraction(s) ==
    IF Len(s) = 0 THEN {Outcome("StackUnderflow", s)}
    ELSE LET a == Last(s)
             s1 == Front(s)
         IN  IF Len(s1) = 0 THEN {Outcome("StackUnderflow", s1)}
             ELSE LET b == Last(s1)
                      s2 == Front(s1)
                  IN  Arith(s2, SubOverflows(b, a), WrapSub(b, a), WrapSub(b, a))

do_multiplication(s) ==
    IF Len(s) = 0 THEN {Outcome("StackUnderflow", s)}
    ELSE LET a == Last(s)
             s1 == Front(s)
         IN  IF Len(s1) = 0 THEN {Outcome("StackUnderflow", s1)}
             ELSE LET b == Last(s1)
                      s2 == Front(s1)
                  IN  Arith(s2, MulOverflows(a, b), WrapMul(a, b), WrapMul(a, b))

do_division(s) ==
    IF Len(s) = 0 THEN {Outcome("StackUnderflow", s)}
    ELSE LET a == Last(s)
             s1 == Front(s)
         IN  IF a = 0 THEN {Outcome("DivisionByZero", s1)}
             ELSE IF Len(s1) = 0 THEN {Outcome("StackUnderflow", s1)}
             ELSE LET b == Last(s1)
                      s2 == Front(s1)
                  IN  IF DivOverflows(b, a) THEN {Outcome("Panic", s2)}
                      ELSE {Outcome("Ok", Append(s2, TruncDiv(b, a)))}

do_dup(s) ==
    IF Len(s) = 0 THEN {Outcome("StackUnderflow", s)}
    ELSE LET a == Last(s)
         IN  {Outcome("Ok", Append(Append(Front(s), a), a))}

do_drop(s) ==
    IF Len(s) = 0 THEN {Outcome("StackUnderflow", s)}
    ELSE {Outcome("Ok", Front(s))}

do_swap(s) ==
    IF Len(s) = 0 THEN {Outcome("StackUnderflow", s)}
    ELSE LET a == Last(s)
             s1 == Front(s)
         IN  IF Len(s1) = 0 THEN {Outcome("StackUnderflow", s1)}
             ELSE LET b == Last(s1)
                      s2 == Front(s1)
                  IN  {Outcome("Ok", Append(Append(s2, a), b))}

do_over(s) ==
    IF Len(s) = 0 THEN {Outcome("StackUnderflow", s)}
    ELSE LET a == Last(s)
             s1 == Front(s)
         IN  IF Len(s1) = 0 THEN {Outcome("StackUnderflow", s1)}
             ELSE LET b == Last(s1)
                      s2 == Front(s1)
                  IN  {Outcome("Ok", Append(Append(Append(s2, b), a), b))}

do_nothing(s) == {Outcome("Ok", s)}

do_operation(op, s) ==
    CASE op.op = "Addition" -> do_addition(s)
      [] op.op = "Subtraction" -> do_substraction(s)
      [] op.op = "Multiplication" -> do_multiplication(s)
      [] op.op = "Division" -> do_division(s)
      [] op.op = "Duplicate" -> do_dup(s)
      [] op.op = "Drop" -> do_drop(s)
      [] op.op = "Swap" -> do_swap(s)
      [] op.op = "Over" -> do_over(s)
      [] OTHER -> do_nothing(s)

---------------------------------------------------------------------------
(* Tokenizer and command classifier.  A lexeme is a string; the model     *)
(* knows the lower-case form and the i32 value of the lexemes it uses.    *)

\* str::to_lowercase on the lexemes of the model
to_lowercase(s) ==
    CASE s = "DUP" -> "dup"
      [] s = "Foo" -> "foo"
      [] OTHER -> s

\* str::parse::<i32>: the lexemes that parse, with their values; any other
\* lexeme (also a numeral out of the i32 range) is an Err and becomes a Word
ParsesAsI32 ==
    ("0" :> 0) @@ ("1" :> 1) @@ ("2" :> 2) @@ ("3" :> 3) @@ ("5" :> 5) @@ ("7" :> 7)
    @@ ("+1" :> 1) @@ ("-1" :> -1) @@ ("-7" :> -7)
    @@ ("2147483647" :> MaxV) @@ ("-2147483648" :> MinV)

parse_tokens(cmd) ==
    [i \in 1..Len(cmd) |->
        LET s == to_lowercase(cmd[i])
        IN  IF s \in DOMAIN ParsesAsI32 THEN Number(ParsesAsI32[s]) ELSE Word(s)]

\* "true", "false" or "InvalidWord"
is_definition(toks) ==
    LET empty == Word("")
        fst == IF Len(toks) = 0 THEN empty ELSE toks[1]
        lst == IF Len(toks) = 0 THEN empty ELSE toks[Len(toks)]
    IN  IF fst = Word(":")
        THEN (IF lst = Word(";") THEN "true" ELSE "InvalidWord")
        ELSE "false"

\* [kind, name, tokens]: kind is "Definition", "Expression", "InvalidWord",
\* or "Panic" when the slice tokens[2..len-1] is out of order (len = 2)
parse_command(cmd) ==
    LET toks == parse_tokens(cmd)
        d == is_definition(toks)
    IN  IF d = "InvalidWord" THEN [kind |-> "InvalidWord", name |-> "", tokens |-> <<>>]
        ELSE IF d = "true" THEN
            IF toks[2].kind = "Word" THEN
                IF 2 > Len(toks) - 1
                THEN [kind |-> "Panic", name |-> "", tokens |-> <<>>]
                ELSE [kind |-> "Definition", name |-> toks[2].str,
                      tokens |-> SubSeq(toks, 3, Len(toks) - 1)]
            ELSE [kind |-> "InvalidWord", name |-> "", tokens |-> <<>>]
        ELSE [kind |-> "Expression", name |-> "", tokens |-> toks]

RECURSIVE SplitFold(_, _, _, _)
\* the fold of split_commands over the lexemes from position i on:
\* acc.0 = cmds, acc.1 = cur
SplitFold(text, i, cmds, cur) ==
    IF i > Len(text) THEN (IF cur # <<>> THEN Append(cmds, cur) ELSE cmds)
    ELSE IF text[i] = ":" THEN SplitFold(text, i + 1, Append(cmds, cur), <<":">>)
    ELSE IF text[i] = ";" THEN SplitFold(text, i + 1, Append(cmds, Append(cur, ";")), <<>>)
    ELSE SplitFold(text, i + 1, cmds, Append(cur, text[i]))

split_commands(text) ==
    SelectSeq(SplitFold(text, 1, <<>>, <<>>), LAMBDA c : c # <<>>)

\* append_front without its reverse(): each token inserted at index 0
append_front_unreversed(toks, op_tokens) ==
    [i \in 1..Len(op_tokens) |-> op_tokens[Len(op_tokens) + 1 - i]] \o toks

\* append_front: op_tokens spliced in, in their order, before tokens
append_front(toks, op_tokens) == op_tokens \o toks

---------------------------------------------------------------------------
(* The interpreter.                                                        *)

\* nothing remembered
NoMemo ==
    [settled |-> FALSE, table0 |-> PREDIFINED_OPERATIONS, has |-> FALSE,
     r_input |-> <<>>, r_stack0 |-> <<>>, r_table |-> PREDIFINED_OPERATIONS,
     r_result |-> "None", r_stack |-> <<>>]

\* the reference interpreter after construction
NoRef == [table |-> PREDIFINED_OPERATIONS, stack |-> <<>>, result |-> "None"]

\* Forth::default
Init ==
    /\ stack = <<>>
    /\ expanded_definitions = PREDIFINED_OPERATIONS
    /\ raw_definitions = <<>>
    /\ pc = "idle"
    /\ commands = <<>>
    /\ tokens = <<>>
    /\ word = ""
    /\ name = ""
    /\ def_tokens = <<>>
    /\ buf = <<>>
    /\ result = "None"
    /\ calls = 0
    /\ input = <<>>
    /\ stack0 = <<>>
    /\ defined = {}
    /\ fresh = {}
    /\ raw_latest = <<>>
    /\ cur_latest = FALSE
    /\ tick = FALSE
    /\ memo = NoMemo
    /\ ref = NoRef

contains_key(w) == w \in DOMAIN expanded_definitions

\* lookup_word with a default for a missing key instead of the error
lookup_word_or_default(w) ==
    IF contains_key(w) THEN expanded_definitions[w] ELSE Native("Nothing")

\* the Operation, or "UnknownWord"
lookup_word(w) ==
    IF contains_key(w) THEN expanded_definitions[w] ELSE Native("UnknownWord")

\* a lookup that takes the entry out of the table (HashMap::remove)
after_lookup_remove(table, w) == [x \in DOMAIN table \ {w} |-> table[x]]

\* the table after lookup_word(w): get(..).cloned() leaves it as it was,
\* though lookup_word borrows the interpreter mutably
after_lookup(table, w) == table

\* is_raw_definition that misses a pending redefinition
is_raw_definition_never(w) == FALSE

is_raw_definition(w) ==
    \E i \in 1..Len(raw_definitions) : raw_definitions[i][1] = w

\* the guard of expand_word without its second clause
needs_drain_if_missing(w) == ~contains_key(w)

\* expand_word, line 252: the guard of the drain loop
needs_drain(w) == ~contains_key(w) \/ is_raw_definition(w)

\* HashMap::insert
insert(table, k, v) ==
    [x \in DOMAIN table \cup {k} |-> IF x = k THEN v ELSE table[x]]

\* a push that puts the entry at the head of the queue
push_front(q, e) == <<e>> \o q

\* Vec::push
push(q, e) == Append(q, e)

\* eval returns r: the rest of the text and of the expression is dropped
Return(r) ==
    /\ pc' = "idle"
    /\ result' = r
    /\ commands' = <<>>
    /\ tokens' = <<>>

\* the process aborts (a panic), or the model gives up at a bound
Stop(how) ==
    /\ pc' = how
    /\ UNCHANGED <<result, commands, tokens>>

\* eval_command, lines 298-303: what is done with the Operation that
\* expand_word returned for the token taken from the worklist, rest = the
\* worklist after it
execute(op, rest) ==
    IF op.op = "UnknownWord" THEN
        /\ Return("UnknownWord")
        /\ UNCHANGED <<stack, tick>>
    ELSE IF op.op = "UserDefined" THEN
        IF Len(op.body) + Len(rest) > MaxWork
        THEN Stop("cut") /\ UNCHANGED <<stack, tick>>
        ELSE /\ tokens' = append_front(rest, op.body)
             /\ pc' = "expr"
             /\ tick' = ~tick
             /\ UNCHANGED <<stack, result, commands>>
    ELSE \E o \in do_operation(op, stack) :
        /\ UNCHANGED tick
        /\ IF Len(o.stack) > MaxStack THEN Stop("cut") /\ UNCHANGED stack
           ELSE /\ stack' = o.stack
                /\ IF o.status = "Ok"
                   THEN /\ tokens' = rest
                        /\ pc' = "expr"
                        /\ UNCHANGED <<result, commands>>
                   ELSE IF o.status = "Panic" THEN Stop("panicked")
                   ELSE Return(o.status)

\* pub fn eval is called with a text of `texts`
Invoke(texts) ==
    /\ pc = "idle"
    /\ \E text \in texts :
        /\ commands' = split_commands(text)
        /\ input' = text
    /\ pc' = "eval"
    /\ result' = "None"
    /\ calls' = calls + 1
    /\ stack0' = stack
    /\ UNCHANGED <<prog, tokens, word, name, def_tokens, buf>>
    /\ UNCHANGED <<defined, fresh, raw_latest, cur_latest, tick>>

\* one of the eval calls of a run of at most MaxCalls calls
Call(texts) ==
    /\ calls < MaxCalls
    /\ Invoke(texts)
    /\ UNCHANGED <<memo, ref>>

\* eval, lines 284-287: one turn of the loop over the commands, with
\* eval_command's parse_command and its Definition arm (lines 291-292)
EvalLoop ==
    /\ pc = "eval"
    /\ IF commands = <<>> THEN
           /\ Return("Ok")
           /\ UNCHANGED <<raw_definitions, defined, fresh, raw_latest>>
       ELSE LET c == parse_command(Head(commands))
            IN  CASE c.kind = "InvalidWord" ->
                       /\ Return("InvalidWord")
                       /\ UNCHANGED <<raw_definitions, defined, fresh, raw_latest>>
                  [] c.kind = "Panic" ->
                       /\ Stop("panicked")
                       /\ UNCHANGED <<raw_definitions, defined, fresh, raw_latest>>
                  [] c.kind = "Definition" ->
                       /\ raw_definitions' = push(raw_definitions, <<c.name, c.tokens>>)
                       /\ commands' = Tail(commands)
                       /\ defined' = defined \cup {c.name}
                       /\ fresh' = fresh \ {c.name}
                       /\ raw_latest' =
                            Append([i \in 1..Len(raw_latest) |->
                                      raw_latest[i] /\ raw_definitions[i][1] # c.name],
                                   TRUE)
                       /\ UNCHANGED <<pc, result, tokens>>
                  [] c.kind = "Expression" ->
                       /\ tokens' = c.tokens
                       /\ commands' = Tail(commands)
                       /\ pc' = "expr"
                       /\ UNCHANGED <<result, raw_definitions, defined, fresh, raw_latest>>
    /\ UNCHANGED <<stack, expanded_definitions, word, name, def_tokens, buf>>
    /\ UNCHANGED <<calls, input, stack0, cur_latest, tick, memo, ref>>

\* eval_command, lines 294-307: one turn of the loop over the worklist
ExprLoop ==
    /\ pc = "expr"
    /\ IF tokens = <<>> THEN
           /\ pc' = "eval"
           /\ UNCHANGED <<stack, tokens, word, result, commands, tick>>
           /\ UNCHANGED expanded_definitions
       ELSE LET token == Head(tokens)
                rest == Tail(tokens)
            IN  IF token.kind = "Number" THEN
                    /\ IF Len(stack) >= MaxStack
                       THEN Stop("cut") /\ UNCHANGED stack
                       ELSE /\ stack' = Append(stack, token.num)
                            /\ tokens' = rest
                            /\ UNCHANGED <<pc, result, commands>>
                    /\ UNCHANGED <<word, tick, expanded_definitions>>
                ELSE IF needs_drain(token.str) THEN
                    /\ word' = token.str
                    /\ tokens' = rest
                    /\ pc' = "drain"
                    /\ UNCHANGED <<stack, result, commands, tick>>
                    /\ UNCHANGED expanded_definitions
                ELSE
                    /\ execute(lookup_word(token.str), rest)
                    /\ expanded_definitions' =
                          after_lookup(expanded_definitions, token.str)
                    /\ UNCHANGED word
    /\ UNCHANGED <<raw_definitions, name, def_tokens, buf>>
    /\ UNCHANGED <<calls, input, stack0, defined, fresh, raw_latest, cur_latest, memo, ref>>

\* expand_word, lines 253-260: one turn of the drain loop, and after it the
\* lookup and what eval_command does with its result
DrainLoop ==
    /\ pc = "drain"
    /\ IF raw_definitions = <<>> THEN
           /\ execute(lookup_word(word), tokens)
           /\ expanded_definitions' = after_lookup(expanded_definitions, word)
           /\ UNCHANGED <<raw_definitions, name, def_tokens, buf, raw_latest, cur_latest>>
       ELSE
           /\ name' = Head(raw_definitions)[1]
           /\ def_tokens' = Head(raw_definitions)[2]
           /\ buf' = <<>>
           /\ raw_definitions' = Tail(raw_definitions)
           /\ cur_latest' = Head(raw_latest)
           /\ raw_latest' = Tail(raw_latest)
           /\ pc' = "expand"
           /\ UNCHANGED <<stack, tokens, result, commands, tick>>
           /\ UNCHANGED expanded_definitions
    /\ UNCHANGED word
    /\ UNCHANGED <<calls, input, stack0, defined, fresh, memo, ref>>

\* expand_raw_definition without its test of the lookup's result: an
\* unknown word is kept by name too
keeps_word_or_unknown(op) == op.op # "UserDefined"

\* expand_raw_definition without its UserDefined arm: every word of the
\* table is kept by name
keeps_word_of_table(op) == op.op # "UnknownWord"

\* expand_raw_definition, lines 271-274: the Operations whose word is
\* pushed to the buffer as a Word
keeps_word(op) == op.op \in Primitives

\* expand_raw_definition, lines 265-280: one turn of its loop, and after
\* it the insert of expand_word (lines 256-257)
ExpandLoop ==
    /\ pc = "expand"
    /\ IF def_tokens = <<>> THEN
           /\ expanded_definitions' = insert(expanded_definitions, name, UserDefined(buf))
           /\ fresh' = IF cur_latest THEN fresh \cup {name} ELSE fresh \ {name}
           /\ pc' = "drain"
           /\ UNCHANGED <<def_tokens, buf, tick>>
       ELSE LET token == Head(def_tokens)
                rest == Tail(def_tokens)
                op == lookup_word(token.str)
            IN  /\ expanded_definitions' =
                      IF token.kind = "Word"
                      THEN after_lookup(expanded_definitions, token.str)
                      ELSE expanded_definitions
                /\ UNCHANGED fresh
                /\ IF token.kind = "Number" \/ keeps_word(op) THEN
                       /\ IF Len(buf) >= MaxWork
                          THEN pc' = "cut" /\ UNCHANGED <<def_tokens, buf>>
                          ELSE /\ buf' = Append(buf, token)
                               /\ def_tokens' = rest
                               /\ UNCHANGED pc
                       /\ UNCHANGED tick
                   ELSE IF op.op = "UserDefined" THEN
                       IF Len(op.body) + Len(rest) > MaxWork
                       THEN pc' = "cut" /\ UNCHANGED <<def_tokens, buf, tick>>
                       ELSE /\ def_tokens' = append_front(rest, op.body)
                            /\ tick' = ~tick
                            /\ UNCHANGED <<pc, buf>>
                   ELSE
                       /\ def_tokens' = rest
                       /\ UNCHANGED <<pc, buf, tick>>
    /\ UNCHANGED <<stack, raw_definitions, commands, tokens, word, name, result>>
    /\ UNCHANGED <<calls, input, stack0, defined, raw_latest, cur_latest, memo, ref>>

---------------------------------------------------------------------------
(* The texts the model evaluates.                                          *)

MaxBody == 1
MaxExprLen == 1

\* the sequences over S of length at most n
SeqsUpTo(S, n) == UNION {[1..k -> S] : k \in 0..n}

DefNames == {"foo", "bar", "dup"}
BodyLexemes == {"1", "2", "foo", "dup"}
ExprLexemes == {"1", "foo", "bar", "dup", "+", "baz"}

\* ": name body ;"
DefTexts ==
    {<<":", n>> \o b \o <<";">> : n \in DefNames, b \in SeqsUpTo(BodyLexemes, MaxBody)}

\* commands that start with ":" and are no definition
BadDefTexts ==
    {<<":">>, <<":", ";">>, <<":", "1", ";">>, <<":", "1", "2", ";">>,
     <<":", "foo">>, <<":", "foo", "1">>}

ExprTexts == SeqsUpTo(ExprLexemes, MaxExprLen)

\* texts of several commands: the examples of the specification, and
\* texts whose first command fails
ExampleTexts ==
    {<<":", "foo", "1", ";", ":", "foo", "2", ";", "foo">>,
     <<":", "bar", "foo", ";", ":", "foo", "1", ";", "bar">>,
     <<":", "dup", "dup", ";", "1", "dup">>,
     <<":", "dup-twice", "dup", "dup", ";", "1", "dup-twice">>,
     <<":", "double", "2", "*", ";", "3", "double">>,
     <<"1", "+", ":", "foo", "1", ";", "2">>,
     <<"baz", ":", "foo", "1", ";">>,
     <<":", "1", "2", ";", "1">>,
     <<":", "foo", "2", ";", ":", "bar", ":", "dup", "1", ";">>,
     <<":", "dup", "1", ";", "dup", ":", "dup", "2", ";", "dup">>,
     <<"1", "baz">>,
     <<"baz", "1">>,
     <<":", "foo", "1", ";", "1", "baz">>,
     <<":", "dup-twice", "dup", "dup", ";", "5", "dup-twice">>,
     <<":", "foo", "1", "2", ";", "foo">>,
     <<":", "foo", "foo", ";", "foo">>,
     <<":", "foo", "bar", ";", ":", "bar", "foo", ";", "foo">>,
     <<":", "foo", "1", "baz", "2", ";", "foo">>,
     <<":", "foo", "1", ";", "1", "dup">>,
     <<":", "foo", "1", ";", ":", "bar", "foo", ";", ":", "foo", "2", ";", "bar">>,
     <<":", "foo", "dup", ";", ":", "dup", "1", ";", "foo">>,
     <<":", "foo", "1", ";", ":", "bar", "foo", ";", "bar">>,
     <<":", "foo", "2", ";", "bar">>,
     <<"drop", "foo", "+">>,
     <<":", "foo", "1", ";", "foo", ":", "foo", "2", ";", "foo">>}

Texts == DefTexts \cup BadDefTexts \cup ExprTexts \cup ExampleTexts

Next ==
    \/ Call(Texts)
    \/ EvalLoop
    \/ ExprLoop
    \/ DrainLoop
    \/ ExpandLoop

Spec == Init /\ [][Next]_vars

---------------------------------------------------------------------------
(* The primitives alone: any stack of i32 values, one eval call of an    *)
(* expression of numbers and primitive words.                             *)

StackValues == {MinV, -7, -1, 0, 2, MaxV}
PrimLexemes ==
    {"+", "-", "*", "/", "dup", "drop", "swap", "over", "DUP", "0", "-1", "2"}
PrimTexts == SeqsUpTo(PrimLexemes, MaxExprLen)

InitPrimitives ==
    /\ stack \in SeqsUpTo(StackValues, MaxInitStack)
    /\ expanded_definitions = PREDIFINED_OPERATIONS
    /\ raw_definitions = <<>>
    /\ pc = "idle"
    /\ commands = <<>>
    /\ tokens = <<>>
    /\ word = ""
    /\ name = ""
    /\ def_tokens = <<>>
    /\ buf = <<>>
    /\ result = "None"
    /\ calls = 0
    /\ input = <<>>
    /\ stack0 = <<>>
    /\ defined = {}
    /\ fresh = {}
    /\ raw_latest = <<>>
    /\ cur_latest = FALSE
    /\ tick = FALSE
    /\ memo = NoMemo
    /\ ref = NoRef

CallOnce(texts) == calls = 0 /\ Call(texts)

NextPrimitives ==
    \/ CallOnce(PrimTexts)
    \/ EvalLoop
    \/ ExprLoop

SpecPrimitives == InitPrimitives /\ [][NextPrimitives]_vars

---------------------------------------------------------------------------
(* Termination: a few texts, and the fairness of a running program (a     *)
(* loop that can take a turn takes it).                                   *)

LiveTexts ==
    {<<":", n>> \o b \o <<";">> : n \in {"foo", "dup"}, b \in SeqsUpTo({"1", "foo", "dup"}, 1)}
    \cup {<<"1", "dup">>, <<"foo">>, <<"1", "foo">>, <<"baz">>,
          <<":", "dup", "dup", ";", "1", "dup">>}

Run == EvalLoop \/ ExprLoop \/ DrainLoop \/ ExpandLoop

NextLive ==
    \/ Call(LiveTexts)
    \/ EvalLoop
    \/ ExprLoop
    \/ DrainLoop
    \/ ExpandLoop

FairSpec == Init /\ [][NextLive]_vars /\ WF_vars(Run)

---------------------------------------------------------------------------
(* Repeated use: one call that defines (and maybe uses) words, then calls *)
(* of one word each.  memo remembers an earlier call of a word that was   *)
(* installed, with nothing pending, when the call was made.               *)

MaxUses == 3

SetupTexts ==
    {<<"1">>,
     <<":", "foo", "1", ";">>,
     <<":", "foo", "1", ";", "foo">>,
     <<":", "foo", ";", "foo">>,
     <<":", "foo", "baz", ";", "foo">>,
     <<":", "foo", "dup", ";", "foo">>,
     <<":", "foo", "swap", ";", "1", "2", "foo">>,
     <<":", "foo", "1", ";", ":", "bar", "foo", "dup", ";", "bar">>,
     <<":", "dup", "1", ";", "dup">>,
     <<":", "foo", "dup", ";", ":", "dup", "1", ";", "foo">>,
     <<":", "foo", "1", ";", "foo", ":", "foo", "2", ";">>}

UseWords == {"foo", "bar", "dup", "drop", "swap", "+", "baz"}

Setup == calls = 0 /\ Call(SetupTexts)

\* eval is called with one word; the call that has just returned is
\* remembered, or not
Use(words) ==
    /\ calls \in 1..MaxUses
    /\ Invoke({<<w>> : w \in words})
    /\ LET settled == raw_definitions = <<>> /\ contains_key(input'[1])
           last == [memo EXCEPT !.has = TRUE, !.r_input = input,
                                !.r_stack0 = stack0, !.r_table = memo.table0,
                                !.r_result = result, !.r_stack = stack]
       IN  \E keep \in IF memo.settled THEN BOOLEAN ELSE {TRUE} :
               memo' = [(IF keep THEN memo ELSE last) EXCEPT
                           !.settled = settled,
                           !.table0 = expanded_definitions]
    /\ UNCHANGED ref

NextUse ==
    \/ Setup
    \/ Use(UseWords)
    \/ EvalLoop
    \/ ExprLoop
    \/ DrainLoop
    \/ ExpandLoop

SpecUse == Init /\ [][NextUse]_vars

---------------------------------------------------------------------------
(* The eager reference interpreter: the same tokenizer, expansion rule    *)
(* and execution rule, but a Definition command expands its body and      *)
(* installs it at once; there is no queue.  It runs a whole call in one   *)
(* step.  "NoReturn": the run did not end within RefFuel turns of a loop; *)
(* "Unsettled": an arithmetic overflow, whose outcome the build decides.  *)

RefFuel == 12

\* expand_raw_definition against `table`
RECURSIVE RefExpand(_, _, _, _)
RefExpand(table, toks, out, fuel) ==
    IF toks = <<>> THEN [ok |-> TRUE, body |-> out]
    ELSE IF fuel = 0 THEN [ok |-> FALSE, body |-> <<>>]
    ELSE LET t == Head(toks)
         IN  IF t.kind = "Number"
             THEN RefExpand(table, Tail(toks), Append(out, t), fuel - 1)
             ELSE IF t.str \notin DOMAIN table
             THEN RefExpand(table, Tail(toks), out, fuel - 1)
             ELSE IF table[t.str].op = "UserDefined"
             THEN RefExpand(table, table[t.str].body \o Tail(toks), out, fuel - 1)
             ELSE RefExpand(table, Tail(toks), Append(out, t), fuel - 1)

\* the loop of eval_command over an expression, every Word looked up in
\* `table`
RECURSIVE RefExec(_, _, _, _)
RefExec(table, s, toks, fuel) ==
    IF toks = <<>> THEN Outcome("Ok", s)
    ELSE IF fuel = 0 THEN Outcome("NoReturn", s)
    ELSE LET t == Head(toks)
         IN  IF t.kind = "Number"
             THEN RefExec(table, Append(s, t.num), Tail(toks), fuel - 1)
             ELSE IF t.str \notin DOMAIN table THEN Outcome("UnknownWord", s)
             ELSE IF table[t.str].op = "UserDefined"
             THEN RefExec(table, s, table[t.str].body \o Tail(toks), fuel - 1)
             ELSE LET outs == do_operation(table[t.str], s)
                  IN  IF Cardinality(outs) # 1 THEN Outcome("Unsettled", s)
                      ELSE LET o == CHOOSE x \in outs : TRUE
                           IN  IF o.status = "Ok"
                               THEN RefExec(table, o.stack, Tail(toks), fuel - 1)
                               ELSE o

\* the loop of eval over the commands from position i on
RECURSIVE RefCommands(_, _, _)
RefCommands(r, cmds, i) ==
    IF i > Len(cmds) THEN [r EXCEPT !.result = "Ok"]
    ELSE LET c == parse_command(cmds[i])
         IN  CASE c.kind = "InvalidWord" -> [r EXCEPT !.result = "InvalidWord"]
               [] c.kind = "Panic" -> [r EXCEPT !.result = "Panic"]
               [] c.kind = "Definition" ->
                    LET e == RefExpand(r.table, c.tokens, <<>>, RefFuel)
                    IN  IF e.ok
                        THEN RefCommands(
                                 [r EXCEPT !.table = insert(r.table, c.name, UserDefined(e.body))],
                                 cmds, i + 1)
                        ELSE [r EXCEPT !.result = "NoReturn"]
               [] c.kind = "Expression" ->
                    LET o == RefExec(r.table, r.stack, c.tokens, RefFuel)
                    IN  IF o.status = "Ok"
                        THEN RefCommands([r EXCEPT !.stack = o.stack], cmds, i + 1)
                        ELSE [r EXCEPT !.stack = o.stack, !.result = o.status]

\* a call of the reference's eval; a reference that did not return from
\* an earlier call takes no further call
RefEval(r, text) ==
    IF r.result \in {"NoReturn", "Panic", "Unsettled"} THEN r
    ELSE RefCommands(r, split_commands(text), 1)

\* eval is called on the interpreter and on the reference
CallBoth(texts) ==
    /\ calls < MaxCalls
    /\ Invoke(texts)
    /\ ref' = RefEval(ref, input')
    /\ UNCHANGED memo

NextEager ==
    \/ CallBoth(Texts)
    \/ EvalLoop
    \/ ExprLoop
    \/ DrainLoop
    \/ ExpandLoop

SpecEager == Init /\ [][NextEager]_vars

---------------------------------------------------------------------------
(* Helpers of the claims.                                                  *)

\* the Operation the next step executes: the one expand_word returns for
\* the word at the head of the worklist (pc = "expr", no drain needed) or
\* for `word` at the end of the drain
Attempted ==
    IF /\ pc = "expr"
       /\ tokens # <<>>
       /\ Head(tokens).kind = "Word"
       /\ contains_key(Head(tokens).str)
       /\ ~is_raw_definition(Head(tokens).str)
    THEN lookup_word(Head(tokens).str)
    ELSE IF pc = "drain" /\ raw_definitions = <<>> THEN lookup_word(word)
    ELSE Native("None")

\* the word that is looked up by the next step, "" when none is
LookedUp ==
    IF /\ pc = "expr"
       /\ tokens # <<>>
       /\ Head(tokens).kind = "Word"
       /\ contains_key(Head(tokens).str)
       /\ ~is_raw_definition(Head(tokens).str)
    THEN Head(tokens).str
    ELSE IF pc = "drain" /\ raw_definitions = <<>> THEN word
    ELSE ""

NeedOperands(o) == IF o \in {"Duplicate", "Drop"} THEN 1 ELSE 2

\* this step makes eval return an error
Fails == pc # "idle" /\ pc' = "idle" /\ result' \in Errors

\* The reference stack machine of the specification, on the mathematical
\* integers: [ok, exact, stack].  ok: every primitive found its operands
\* and no divisor was 0; exact: every value it pushed is an i32 (the
\* stack is meaningful only then).
RefBinary(o, b, a) ==
    CASE o = "Addition" -> [exact |-> ~AddOverflows(b, a), val |-> WrapAdd(b, a)]
      [] o = "Subtraction" -> [exact |-> ~SubOverflows(b, a), val |-> WrapSub(b, a)]
      [] o = "Multiplication" -> [exact |-> ~MulOverflows(b, a), val |-> WrapMul(b, a)]
      [] o = "Division" ->
           [exact |-> ~DivOverflows(b, a),
            val |-> IF DivOverflows(b, a) THEN 0 ELSE TruncDiv(b, a)]

RefStep(s, t) ==
    IF t.kind = "Number" THEN [ok |-> TRUE, exact |-> TRUE, stack |-> Append(s, t.num)]
    ELSE LET o == PREDIFINED_OPERATIONS[t.str].op
             n == Len(s)
         IN  IF n < NeedOperands(o) \/ (o = "Division" /\ s[n] = 0)
             THEN [ok |-> FALSE, exact |-> TRUE, stack |-> s]
             ELSE CASE o = "Duplicate" ->
                         [ok |-> TRUE, exact |-> TRUE, stack |-> Append(s, s[n])]
                    [] o = "Drop" ->
                         [ok |-> TRUE, exact |-> TRUE, stack |-> SubSeq(s, 1, n - 1)]
                    [] o = "Swap" ->
                         [ok |-> TRUE, exact |-> TRUE,
                          stack |-> SubSeq(s, 1, n - 2) \o <<s[n], s[n - 1]>>]
                    [] o = "Over" ->
                         [ok |-> TRUE, exact |-> TRUE,
                          stack |-> SubSeq(s, 1, n - 2) \o <<s[n - 1], s[n], s[n - 1]>>]
                    [] OTHER ->
                         LET r == RefBinary(o, s[n - 1], s[n])
                         IN  [ok |-> TRUE, exact |-> r.exact,
                              stack |-> Append(SubSeq(s, 1, n - 2), r.val)]

RECURSIVE RefRun(_, _, _)
RefRun(s, toks, i) ==
    IF i > Len(toks) THEN [ok |-> TRUE, exact |-> TRUE, stack |-> s]
    ELSE LET r == RefStep(s, toks[i])
         IN  IF r.ok /\ r.exact THEN RefRun(r.stack, toks, i + 1) ELSE r

Reference == RefRun(stack0, parse_tokens(input), 1)

\* the eval call of SpecPrimitives is over
CallOver == calls = 1 /\ pc \in {"idle", "panicked"}

---------------------------------------------------------------------------
(* The claims.                                                             *)

\* C1: for every stack and every expression of Number tokens and primitive
\* words in which each primitive finds its operands (and no divisor is 0),
\* eval succeeds and leaves the stack of the reference stack machine.
C1_PrimitivesMatchReference ==
    (CallOver /\ Reference.ok) =>
        /\ pc = "idle"
        /\ result = "Ok"
        /\ Reference.exact
        /\ stack = Reference.stack

\* C1, where it holds: the same, for the expressions whose every value
\* stays in the i32 range.
C1_InRange ==
    (CallOver /\ Reference.ok /\ Reference.exact) =>
        /\ pc = "idle"
        /\ result = "Ok"
        /\ stack = Reference.stack

\* C2: last definition wins.  Whenever a name that was ever defined is
\* looked up for execution, its table entry is the one installed from the
\* most recent Definition command of that name (for user names and for
\* redefined primitive names); and ": foo 1 ; : foo 2 ; foo" leaves [2].
C2_LastDefinitionWins ==
    /\ (LookedUp \in defined) =>
          /\ LookedUp \in fresh
          /\ contains_key(LookedUp)
          /\ expanded_definitions[LookedUp].op = "UserDefined"
    /\ (/\ pc = "idle"
        /\ calls = 1
        /\ input = <<":", "foo", "1", ";", ":", "foo", "2", ";", "foo">>) =>
          (result = "Ok" /\ stack = <<2>>)
    /\ (/\ pc = "idle"
        /\ calls = 1
        /\ input = <<":", "dup", "1", ";", "dup", ":", "dup", "2", ";", "dup">>) =>
          (result = "Ok" /\ stack = <<1, 2>>)

\* C2's case: a primitive name defined twice, with a use in between, is
\* looked up after its second definition was drained
C2_Witness ==
    /\ LookedUp = "dup"
    /\ "dup" \in fresh
    /\ input = <<":", "dup", "1", ";", "dup", ":", "dup", "2", ";", "dup">>
    /\ stack = <<1>>
    /\ expanded_definitions["dup"] = UserDefined(<<Number(2)>>)

\* C3: a primitive that fails with StackUnderflow leaves the stack as it
\* was just before the primitive was attempted.
C3_UnderflowKeepsStack ==
    [][(Attempted.op \in Primitives /\ result' = "StackUnderflow") => stack' = stack]_vars

\* C4: a primitive that needs N operands returns StackUnderflow whenever
\* the stack holds fewer than N values; Div returns DivisionByZero exactly
\* when at least two values are present and the top one is 0.
C4_ErrorKind ==
    [][Attempted.op \in Primitives =>
        /\ (Len(stack) < NeedOperands(Attempted.op)) => (result' = "StackUnderflow")
        /\ (Attempted.op = "Division") =>
              ((result' = "DivisionByZero") <=> (Len(stack) >= 2 /\ Last(stack) = 0))
      ]_vars

\* C5: a command whose first token is ":" is queued (and eval goes on) if
\* its last token is ";" and its second token is a Word, and returns
\* InvalidWord with the stack, the table and the queue unchanged if not;
\* nothing else happens, no abnormal end.
C5_ColonCommand ==
    [][(/\ pc = "eval"
        /\ commands # <<>>
        /\ parse_tokens(Head(commands))[1] = Word(":")) =>
          LET t == parse_tokens(Head(commands))
          IN  IF Len(t) >= 2 /\ t[Len(t)] = Word(";") /\ t[2].kind = "Word"
              THEN /\ pc' = "eval"
                   /\ Len(raw_definitions') = Len(raw_definitions) + 1
                   /\ SubSeq(raw_definitions', 1, Len(raw_definitions)) = raw_definitions
                   /\ raw_definitions'[Len(raw_definitions')][1] = t[2].str
                   /\ UNCHANGED <<stack, expanded_definitions>>
              ELSE /\ pc' = "idle"
                   /\ result' = "InvalidWord"
                   /\ UNCHANGED prog
      ]_vars

\* a word that is no primitive name and was never the name of a Definition
NeverDefined(w) == w \notin DOMAIN PREDIFINED_OPERATIONS /\ w \notin defined

C7_FirstErrorStops ==
    [][/\ Fails =>
            /\ commands' = <<>>
            /\ tokens' = <<>>
            /\ UNCHANGED prog
       /\ (pc = "idle" /\ pc' # "idle") => UNCHANGED prog
      ]_vars

\* C8: forward references are resolvable.  A Word of a definition body
\* whose own definition is pending (queued later) when the body is
\* expanded is not lost from the installed body; ": bar foo ; : foo 1 ; bar"
\* leaves [1].
C8_ForwardReference ==
    /\ [][(/\ pc = "expand"
           /\ def_tokens # <<>>
           /\ Head(def_tokens).kind = "Word"
           /\ is_raw_definition(Head(def_tokens).str)
           /\ ~contains_key(Head(def_tokens).str)) =>
             ~(def_tokens' = Tail(def_tokens) /\ buf' = buf /\ pc' = pc)
         ]_vars
    /\ []((/\ pc = "idle"
           /\ calls = 1
           /\ input = <<":", "bar", "foo", ";", ":", "foo", "1", ";", "bar">>) =>
             (result = "Ok" /\ stack = <<1>>))

\* C9: every UserDefined body of the table holds only Number tokens and
\* Word tokens that the current table maps to a primitive.
C9_TableInvariant ==
    \A k \in DOMAIN expanded_definitions :
        LET e == expanded_definitions[k]
        IN  e.op = "UserDefined" =>
              \A i \in 1..Len(e.body) :
                  \/ e.body[i].kind = "Number"
                  \/ /\ contains_key(e.body[i].str)
                     /\ expanded_definitions[e.body[i].str].op \in Primitives

\* C10: every eval call terminates (it returns; a panic or a bound of the
\* model also ends the run).
C10_Terminates ==
    (pc = "eval") ~> (pc \in {"idle", "panicked", "cut"})

\* a command that is a well-formed Definition: ": name body ;" with a Word
\* for name
WellFormedDefinition(t) ==
    /\ Len(t) >= 3
    /\ t[1] = Word(":")
    /\ t[Len(t)] = Word(";")
    /\ t[2].kind = "Word"

\* C11: a well-formed Definition command succeeds (eval goes on to the
\* next command) and only appends (name, body) at the tail of the pending
\* queue: stack and table unchanged, the entries already pending keep
\* their order.  The table is written only by the drain step (the insert
\* that ends the expansion of a pending definition).
C11_DefinitionOnlyQueues ==
    /\ [][(/\ pc = "eval"
           /\ commands # <<>>
           /\ WellFormedDefinition(parse_tokens(Head(commands)))) =>
             LET t == parse_tokens(Head(commands))
             IN  /\ raw_definitions' =
                       raw_definitions \o <<<<t[2].str, SubSeq(t, 3, Len(t) - 1)>>>>
                 /\ pc' = "eval"
                 /\ commands' = Tail(commands)
                 /\ UNCHANGED <<stack, expanded_definitions, result>>
         ]_vars
    /\ [][expanded_definitions' # expanded_definitions =>
             /\ pc = "expand"
             /\ def_tokens = <<>>
             /\ expanded_definitions' =
                   insert(expanded_definitions, name, UserDefined(buf))
         ]_vars

\* C11's case: a Definition was queued behind one already pending, with a
\* stack and a table that earlier commands have changed
C11_Witness ==
    /\ pc = "eval"
    /\ Len(raw_definitions) = 2
    /\ raw_definitions[1] = <<"foo", <<Number(1)>>>>
    /\ raw_definitions[2] = <<"foo", <<Number(2)>>>>
    /\ stack # <<>>
    /\ expanded_definitions # PREDIFINED_OPERATIONS

\* C12: idempotence of use.  When eval is called with a word W that is in
\* the table while nothing is pending, the call leaves the table and the
\* queue as they were; and a later such call of W, made with an equal
\* stack (and table), returns the same result and leaves the same stack.
C12_IdempotentUse ==
    /\ memo.settled =>
          /\ raw_definitions = <<>>
          /\ expanded_definitions = memo.table0
    /\ (/\ pc = "idle"
        /\ memo.settled
        /\ memo.has
        /\ input = memo.r_input
        /\ stack0 = memo.r_stack0
        /\ memo.table0 = memo.r_table) =>
          /\ result = memo.r_result
          /\ stack = memo.r_stack

\* C12's case: an installed user word that changes the stack has been
\* evaluated a second time from an equal stack, nothing pending
C12_Witness ==
    /\ pc = "idle"
    /\ memo.settled
    /\ memo.has
    /\ input = memo.r_input
    /\ stack0 = memo.r_stack0
    /\ memo.table0 = memo.r_table
    /\ contains_key(input[1])
    /\ expanded_definitions[input[1]].op = "UserDefined"
    /\ expanded_definitions[input[1]].body # <<>>
    /\ result = "Ok"
    /\ stack # stack0

\* the worklist holds, at its head, a Word that the table maps to a
\* UserDefined operation
UserWordAtHead ==
    /\ pc = "expr"
    /\ tokens # <<>>
    /\ Head(tokens).kind = "Word"
    /\ contains_key(Head(tokens).str)
    /\ expanded_definitions[Head(tokens).str].op = "UserDefined"

\* W at the head of the worklist is replaced by the body the table holds
\* for it, in the body's order and before the rest; nothing else changes
\* (or the model stops at its bound on the worklist)
Substituted ==
    \/ pc' = "cut"
    \/ /\ pc' = "expr"
       /\ tokens' = expanded_definitions[Head(tokens).str].body \o Tail(tokens)
       /\ UNCHANGED <<prog, result, commands>>

\* C13 as claimed: for every installed user word W with body B, evaluating
\* 'pre W post' is evaluating 'pre B post': when the evaluation reaches W,
\* the state goes to the one 'pre B post' is in after pre, with B in its
\* order before post, the stack, the table and the queue untouched; and
\* ": dup-twice dup dup ; 5 dup-twice" leaves [5,5,5].
C13_SpliceIsSubstitution ==
    /\ [][UserWordAtHead => Substituted]_vars
    /\ []((/\ pc = "idle"
           /\ calls = 1
           /\ input = <<":", "dup-twice", "dup", "dup", ";", "5", "dup-twice">>) =>
             (result = "Ok" /\ stack = <<5, 5, 5>>))

\* C13 as amended: the same, for an installed user word W of which no
\* definition is pending.
C13_SpliceIsSubstitutionUnlessPending ==
    /\ [][(UserWordAtHead /\ ~is_raw_definition(Head(tokens).str)) => Substituted]_vars
    /\ [](/\ (/\ pc = "idle"
              /\ calls = 1
              /\ input = <<":", "dup-twice", "dup", "dup", ";", "5", "dup-twice">>) =>
                (result = "Ok" /\ stack = <<5, 5, 5>>)
          /\ (/\ pc = "idle"
              /\ input = <<"drop", "foo", "+">>
              /\ stack0 = <<1, 2>>
              /\ raw_definitions = <<>>
              /\ lookup_word("foo") = UserDefined(<<Number(1), Number(2)>>)) =>
                (result = "Ok" /\ stack = <<1, 3>>))

\* C13's case: foo, installed with body [1, 2] and not pending, was reached
\* in 'drop foo +' after drop had run, and was replaced, '+' behind it
C13_Witness ==
    /\ input = <<"drop", "foo", "+">>
    /\ stack0 = <<1, 2>>
    /\ pc = "expr"
    /\ tokens = <<Number(1), Number(2), Word("+")>>
    /\ stack = <<1>>
    /\ raw_definitions = <<>>
    /\ expanded_definitions["foo"] = UserDefined(<<Number(1), Number(2)>>)

\* C14 as claimed: a user word A whose body references B, B redefined after
\* A's definition, executes with B's definition current when A is executed,
\* for B a user word (": foo 1 ; : bar foo ; : foo 2 ; bar" leaves [2], and
\* so does bar after a later call has redefined foo) and for B a primitive
\* name (": foo dup ; : dup 1 ; foo" leaves [1]).
C14_TimeOfUse ==
    /\ (/\ pc = "idle"
        /\ calls = 1
        /\ input = <<":", "foo", "1", ";", ":", "bar", "foo", ";",
                     ":", "foo", "2", ";", "bar">>) =>
          (result = "Ok" /\ stack = <<2>>)
    /\ (/\ pc = "idle"
        /\ calls = 2
        /\ stack0 = <<1>>
        /\ lookup_word("bar") = UserDefined(<<Number(1)>>)
        /\ input = <<":", "foo", "2", ";", "bar">>) =>
          (result = "Ok" /\ stack = <<1, 2>>)
    /\ (/\ pc = "idle"
        /\ calls = 1
        /\ input = <<":", "foo", "dup", ";", ":", "dup", "1", ";", "foo">>) =>
          (result = "Ok" /\ stack = <<1>>)

\* C14 as amended.  When a definition is expanded, a Word that the table
\* maps to a user word is replaced by that entry's body as it is then, and
\* a Word that names a native operation is kept by name (to be looked up
\* when the body is executed); a later definition rewrites the entry of
\* its own name only.  So bar keeps the foo of its expansion ([1] in both
\* examples), and foo = [dup] runs the dup current at its execution.
C14_SubWordsFixedAtExpansion ==
    /\ [][(/\ pc = "expand"
           /\ def_tokens # <<>>
           /\ Head(def_tokens).kind = "Word"
           /\ contains_key(Head(def_tokens).str)) =>
             LET e == expanded_definitions[Head(def_tokens).str]
             IN  \/ pc' = "cut"
                 \/ IF e.op = "UserDefined"
                    THEN /\ def_tokens' = e.body \o Tail(def_tokens)
                         /\ buf' = buf
                    ELSE /\ def_tokens' = Tail(def_tokens)
                         /\ buf' = Append(buf, Head(def_tokens))
         ]_vars
    /\ [][\A k \in DOMAIN expanded_definitions :
             (k \notin DOMAIN expanded_definitions'
                 \/ expanded_definitions'[k] # expanded_definitions[k]) =>
               (pc = "expand" /\ def_tokens = <<>> /\ k = name)
         ]_vars
    /\ [](/\ (/\ pc = "idle"
              /\ calls = 1
              /\ input = <<":", "foo", "1", ";", ":", "bar", "foo", ";",
                           ":", "foo", "2", ";", "bar">>) =>
                (result = "Ok" /\ stack = <<1>>)
          /\ (/\ pc = "idle"
              /\ calls = 2
              /\ stack0 = <<1>>
              /\ lookup_word("bar") = UserDefined(<<Number(1)>>)
              /\ input = <<":", "foo", "2", ";", "bar">>) =>
                (result = "Ok" /\ stack = <<1, 1>>)
          /\ (/\ pc = "idle"
              /\ calls = 1
              /\ input = <<":", "foo", "dup", ";", ":", "dup", "1", ";", "foo">>) =>
                (result = "Ok" /\ stack = <<1>>))

\* C14's case: bar, defined with body [foo], was executed after foo had
\* been redefined from [1] to [2]
C14_Witness ==
    /\ pc = "idle"
    /\ result = "Ok"
    /\ input = <<":", "foo", "1", ";", ":", "bar", "foo", ";",
                 ":", "foo", "2", ";", "bar">>
    /\ lookup_word("foo") = UserDefined(<<Number(2)>>)
    /\ lookup_word("bar") = UserDefined(<<Number(1)>>)
    /\ stack = <<1>>

\* the queue holds a definition named w
Pending(w) == \E i \in 1..Len(raw_definitions) : raw_definitions[i][1] = w

\* the worklist holds a Word at its head
WordAtHead == pc = "expr" /\ tokens # <<>> /\ Head(tokens).kind = "Word"

\* C15 as claimed: whenever a Word is looked up for execution, the queue of
\* pending definitions is empty (all of them were drained first), also
\* for a word that is in the table and not itself pending.
C15_QueueEmptyAtEveryLookup ==
    LookedUp # "" => raw_definitions = <<>>

\* C15 as amended.  A Word that is absent from the table or has a
\* definition pending is looked up only after the whole queue was drained:
\* the definitions are taken from the head of the queue one by one, each
\* expanded and installed under its name, and nothing of the expression
\* runs until the queue is empty.  A Word that is in the table and not
\* pending is looked up at once, and the queue and the table are left as
\* they are.
C15_DrainWhenMissingOrPending ==
    /\ [][(WordAtHead /\ (~contains_key(Head(tokens).str) \/ Pending(Head(tokens).str))) =>
             /\ pc' = "drain"
             /\ word' = Head(tokens).str
             /\ tokens' = Tail(tokens)
             /\ UNCHANGED <<prog, result>>
         ]_vars
    /\ [][(pc = "drain" /\ raw_definitions # <<>>) =>
             /\ pc' = "expand"
             /\ name' = Head(raw_definitions)[1]
             /\ def_tokens' = Head(raw_definitions)[2]
             /\ raw_definitions' = Tail(raw_definitions)
             /\ UNCHANGED <<stack, expanded_definitions, tokens, word, result>>
         ]_vars
    /\ [][pc = "expand" =>
             /\ pc' \in {"expand", "drain", "cut"}
             /\ UNCHANGED <<stack, raw_definitions, tokens, word, name, result>>
             /\ expanded_definitions' # expanded_definitions =>
                   /\ pc' = "drain"
                   /\ expanded_definitions' =
                         insert(expanded_definitions, name, UserDefined(buf))
         ]_vars
    /\ [][(WordAtHead /\ contains_key(Head(tokens).str) /\ ~Pending(Head(tokens).str)) =>
             /\ pc' \in {"expr", "idle", "panicked", "cut"}
             /\ UNCHANGED <<raw_definitions, expanded_definitions>>
         ]_vars

\* C15's case: dup, in the table and not pending, was looked up and run
\* while the definition of foo was pending, and foo is pending still
C15_Witness ==
    /\ pc = "idle"
    /\ input = <<":", "foo", "1", ";", "1", "dup">>
    /\ result = "Ok"
    /\ stack = <<1, 1>>
    /\ raw_definitions = <<<<"foo", <<Number(1)>>>>>>
    /\ ~contains_key("foo")

\* C16: silent drop during expansion.  A Word of a pending definition's
\* body that is absent from the table when the body is expanded is
\* dropped: the expansion goes on with the remaining tokens, the buffer
\* and everything else as they were; no step of the drain returns an
\* error or aborts; and the defined word then runs as the shortened body
\* (": foo 1 baz 2 ; foo" installs foo = [1, 2] and leaves [1, 2]).
C16_SilentDrop ==
    /\ [][(/\ pc = "expand"
           /\ def_tokens # <<>>
           /\ Head(def_tokens).kind = "Word"
           /\ ~contains_key(Head(def_tokens).str)) =>
             /\ def_tokens' = Tail(def_tokens)
             /\ pc' = "expand"
             /\ UNCHANGED <<buf, prog, result, tokens, commands, word, name>>
         ]_vars
    /\ [][(pc = "expand" \/ (pc = "drain" /\ raw_definitions # <<>>)) =>
             /\ pc' \in {"expand", "drain", "cut"}
             /\ UNCHANGED <<result, stack, tokens, commands>>
         ]_vars
    /\ []((/\ pc = "idle"
           /\ calls = 1
           /\ input = <<":", "foo", "1", "baz", "2", ";", "foo">>) =>
             /\ result = "Ok"
             /\ stack = <<1, 2>>
             /\ lookup_word("foo") = UserDefined(<<Number(1), Number(2)>>))

\* C16's case: foo, defined with the unknown baz in its body, was
\* installed without it and executed
C16_Witness ==
    /\ pc = "idle"
    /\ input = <<":", "foo", "1", "baz", "2", ";", "foo">>
    /\ result = "Ok"
    /\ stack = <<1, 2>>
    /\ ~contains_key("baz")
    /\ lookup_word("foo") = UserDefined(<<Number(1), Number(2)>>)

\* C17 as claimed: there is no cycle detection, so executing a user word
\* whose body references its own name, directly (": foo foo ;" then "foo")
\* or through another user word, never returns.
C17_SelfReferenceNeverReturns ==
    input \in {<<":", "foo", "foo", ";", "foo">>,
               <<":", "foo", "bar", ";", ":", "bar", "foo", ";", "foo">>} =>
        pc # "idle"

\* C17 as amended.  No installed body holds the name of a user word: a
\* reference of a definition to its own name or to another user word is
\* dropped or replaced by the body then installed, so executing such a
\* word returns (on a new interpreter both texts above return Ok with an
\* empty body installed for foo).  Only a
\* primitive name can stand in its own installed body; when such a word is
\* reached with its own name first in its body, the splice puts it at the
\* head of the worklist again, and the call never returns
\* (": dup dup ; 1 dup").
C17_OnlyPrimitiveNamesRecur ==
    /\ \A k \in DOMAIN expanded_definitions :
          \A i \in 1..Len(expanded_definitions[k].body) :
              expanded_definitions[k].body[i].kind = "Word" =>
                  expanded_definitions[k].body[i].str \in DOMAIN PREDIFINED_OPERATIONS
    /\ (/\ pc = "idle"
        /\ calls = 1
        /\ input \in {<<":", "foo", "foo", ";", "foo">>,
                      <<":", "foo", "bar", ";", ":", "bar", "foo", ";", "foo">>}) =>
          /\ result = "Ok"
          /\ stack = stack0
          /\ raw_definitions = <<>>
          /\ lookup_word("foo") = UserDefined(<<>>)
    /\ (calls = 1 /\ input = <<":", "dup", "dup", ";", "1", "dup">>) =>
          /\ pc \notin {"idle", "panicked", "cut"}
          /\ (pc = "expr" /\ tokens = <<Word("dup")>> /\ raw_definitions = <<>>) =>
                /\ stack = <<1>>
                /\ LookedUp = "dup"
                /\ Attempted = UserDefined(<<Word("dup")>>)

\* C17's case: foo, defined by ": foo foo ;", was executed, and eval
\* returned
C17_Witness ==
    /\ pc = "idle"
    /\ calls = 1
    /\ input = <<":", "foo", "foo", ";", "foo">>
    /\ result = "Ok"
    /\ defined = {"foo"}
    /\ lookup_word("foo") = UserDefined(<<>>)

\* C18: lazy draining is unobservable.  After every sequence of eval
\* calls, the call of the interpreter that has returned returned what the
\* eager reference interpreter returned for it, with the same stack.
C18_LazyMatchesEager ==
    (pc = "idle" /\ calls >= 1) =>
        /\ ref.result = result
        /\ ref.stack = stack

\* C18, where it holds: the same, for the calls from which the reference
\* returns, too.
C18_WhenReferenceReturns ==
    (pc = "idle" /\ calls >= 1 /\ ref.result \in Errors \cup {"Ok"}) =>
        /\ ref.result = result
        /\ ref.stack = stack

\* C19: arithmetic stays in range.  Add, Sub, Mul, and Div with a non-zero
\* divisor, attempted on a stack of at least two i32 values, complete (no
\* abnormal end, no error) and replace the two operands by one value of
\* the i32 range, also for MinV / -1 and for sums and products past the
\* limits.
C19_ArithmeticInRange ==
    [][(/\ Attempted.op \in {"Addition", "Subtraction", "Multiplication", "Division"}
        /\ Len(stack) >= 2
        /\ ~(Attempted.op = "Division" /\ Last(stack) = 0)) =>
          /\ pc' = "expr"
          /\ result' = result
          /\ Len(stack') = Len(stack) - 1
          /\ MinV <= Last(stack')
          /\ Last(stack') <= MaxV
      ]_vars

=============================================================================
